---- MODULE Spec2Model ----
(***************************************************************************)
(* Model of internal/chart/dependency.go of charts-syncer: BuildDependencies *)
(* and the functions it calls (GetChartLock, GetLockAPIVersion,             *)
(* updateRequirementsFile, updateChartMetadataFile, updateLockFile,         *)
(* hashDeps, getDependencyRepoURL).                                         *)
(*                                                                         *)
(* A chart directory is a function from file names to contents.  A         *)
(* dependency is a record [name, version, repository]; a repository URL is *)
(* a record [scheme, rest] so that url.Parse / URL.String in                *)
(* getDependencyRepoURL is a real conversion.  One call of                  *)
(* BuildDependencies is a sequence of steps, one per statement group of the *)
(* function, with pc its position.                                         *)
(***************************************************************************)
EXTENDS Integers, Sequences, FiniteSets, TLC

\* Longest declaration list (requirements.yaml / Chart.yaml dependencies).
MaxDecl == 2
\* Longest lock entry list (requirements.lock / Chart.lock dependencies).
MaxLock == 2
\* Number of successive invocations on the same chart directory (SpecRewrite).
MaxRuns == 2

VARIABLES
    disk,              \* chart directory: file name -> content or NoFile
    chartsDir,         \* archives in <chartPath>/charts
    targetRepo,        \* [url, kind] of the target repository
    ignoreTrusted,     \* URLs that syncTrusted and ignoreTrusted classify as ignored
    pc,                \* position in BuildDependencies
    lock,              \* the *chart.Lock held by BuildDependencies, or NoLock
    apiVersion,        \* local apiVersion of BuildDependencies
    depsFromMetadata,  \* local depsFromMetadata of BuildDependencies
    declDeps,          \* deps / chartMetadata.Dependencies handed to updateLockFile
    i,                 \* index of the range loop over deps (1-based)
    errs,              \* the multierror: sequence of [op, id]
    fetchLog,          \* calls of Fetch: sequence of [client, name, version]
    log,               \* side effects of this invocation, in order
    ret,               \* result of BuildDependencies
    failed,            \* indices of deps whose Fetch or CopyFile returned an error
    ioErr,             \* an operation on the file system returned an error
    run,               \* number of the current invocation
    prev               \* chart directory when the current invocation started

vars == <<disk, chartsDir, targetRepo, ignoreTrusted, pc, lock, apiVersion,
          depsFromMetadata, declDeps, i, errs, fetchLog, log, ret, failed, ioErr,
          run, prev>>

\* ------------------------------------------------------------------ values

NoFile == [kind |-> "nofile"]
NoLock == [kind |-> "nolock"]

APIV1 == "v1"
APIV2 == "v2"
ChartFilename == "Chart.yaml"
RequirementsFilename == "requirements.yaml"
RequirementsLockFilename == "requirements.lock"
ChartLockFilename == "Chart.lock"
Files == {ChartFilename, RequirementsFilename, RequirementsLockFilename, ChartLockFilename}

Url(scheme, rest) == [scheme |-> scheme, rest |-> rest]
SourceUrl == Url("https", "src.example/charts")
TargetUrl == Url("https", "tgt.example/charts")
ExtUrl == Url("https", "ext.example/charts")
sourceRepo == [url |-> SourceUrl, kind |-> "HELM"]
Kinds == {"HELM", "OCI"}

Names == <<"etcd", "redis", "common", "mysql">>
DeclVersions == {"1.2.3", "1.x"}
LockVersions == {"1.2.3"}
DepRepos == {SourceUrl, ExtUrl}
OldDigest == <<"sha256:", "helm">>
StaleArchive == <<"stale", "-", "0.0.1", ".tgz">>

Dep(n, v, r) == [name |-> n, version |-> v, repository |-> r]

\* ------------------------------------------------------- pure functions

\* getDependencyRepoURL: the target's URL, its scheme replaced by oci for an
\* OCI target (url.Parse, Scheme = "oci", String()).
getDependencyRepoURL(repo) ==
    IF repo.kind = "OCI"
    THEN LET parseUrl == [scheme |-> repo.url.scheme, rest |-> repo.url.rest]
         IN  Url("oci", parseUrl.rest)
    ELSE repo.url

\* utils.ShouldIgnoreRepo: a pure function of the repository URL and the
\* configured lists; ignoreList holds the URLs the lists classify as ignored.
ShouldIgnoreRepo(url, ignoreList) == url \in ignoreList

\* utils.GetRepoLocationId: an identifier of the repository URL.
GetRepoLocationId(url) == <<url.scheme, "://", url.rest>>

\* The loop body with the comparison against the source repository left out.
RewriteDepTrustOnly(dep, src, tgt, ignoreList) ==
    IF ~ShouldIgnoreRepo(dep.repository, ignoreList)
    THEN [dep EXCEPT !.repository = getDependencyRepoURL(tgt)]
    ELSE dep

\* The body of the three range loops that rewrite repository references.
RewriteDep(dep, src, tgt, ignoreList) ==
    LET replaceDependencyRepo == ~ShouldIgnoreRepo(dep.repository, ignoreList)
    IN  IF dep.repository = src.url \/ replaceDependencyRepo
        THEN [dep EXCEPT !.repository = getDependencyRepoURL(tgt)]
        ELSE dep

\* The loop of updateChartMetadataFile building each entry anew from its name
\* and repository.
MetadataRewriteNoVersion(deps, src, tgt, ignoreList) ==
    [k \in 1..Len(deps) |->
        Dep(deps[k].name, "", RewriteDep(deps[k], src, tgt, ignoreList).repository)]

\* The range loop of updateChartMetadataFile over chartMetadata.Dependencies.
MetadataRewrite(deps, src, tgt, ignoreList) ==
    [k \in 1..Len(deps) |-> RewriteDep(deps[k], src, tgt, ignoreList)]

\* The range loop of updateRequirementsFile over deps.Dependencies.
RequirementsRewrite(deps, src, tgt, ignoreList) ==
    [k \in 1..Len(deps) |-> RewriteDep(deps[k], src, tgt, ignoreList)]

\* The loop of updateLockFile deciding on the trust lists alone.
LockRewriteTrustOnly(entries, src, tgt, ignoreList) ==
    [k \in 1..Len(entries) |-> RewriteDepTrustOnly(entries[k], src, tgt, ignoreList)]

\* The range loop of updateLockFile over lock.Dependencies.
LockRewrite(entries, src, tgt, ignoreList) ==
    [k \in 1..Len(entries) |-> RewriteDep(entries[k], src, tgt, ignoreList)]

\* json.Marshal of one dependency list, as a sequence of tokens.
RECURSIVE MarshalDeps(_)
MarshalDeps(deps) ==
    IF deps = <<>> THEN <<>>
    ELSE <<"{", deps[1].name, deps[1].version,
           deps[1].repository.scheme, "://", deps[1].repository.rest, "}">>
         \o MarshalDeps(Tail(deps))

\* hashDeps over the lock entries alone.
hashDepsLockOnly(req, lk) ==
    <<"sha256:">> \o <<"[">> \o MarshalDeps(lk) \o <<"]">>

\* hashDeps: "sha256:" + digest of json.Marshal([2][]*Dependency{req, lock}).
\* The digest is taken collision free: it is the marshalled text itself.
hashDeps(req, lk) ==
    <<"sha256:">> \o <<"[", "[">> \o MarshalDeps(req) \o <<"]", "[">>
                  \o MarshalDeps(lk) \o <<"]", "]">>

\* GetLockAPIVersion on a chart directory.
GetLockAPIVersion(d) ==
    IF d[RequirementsLockFilename] # NoFile THEN APIV1
    ELSE IF d[ChartLockFilename] # NoFile THEN APIV2
    ELSE ""

\* lockFilePath
lockFilePath(v) ==
    IF v = APIV1 THEN RequirementsLockFilename ELSE ChartLockFilename

\* Every chart without a lock file taken for a Modern one.
MetadataAPIVersionAlwaysV2(chartFile) == APIV2

\* Lines 153-158: the generation of a chart without a lock file, from the
\* apiVersion of its Chart.yaml; "" when the chart has no dependencies.
MetadataAPIVersion(chartFile) ==
    IF chartFile.apiVersion = APIV2 THEN APIV2 ELSE ""

\* GetChartLock on a chart directory (no read or parse error).
GetChartLock(d) ==
    IF GetLockAPIVersion(d) = "" THEN NoLock
    ELSE d[lockFilePath(GetLockAPIVersion(d))]

\* fmt.Sprintf("%s-%s", dep.Name, dep.Version)
DepId(dep) == <<dep.name, "-", dep.version>>

\* path of the archive in charts/: fmt.Sprintf("%s.tgz", id)
DepFile(dep) == DepId(dep) \o <<".tgz">>

\* The client the loop of BuildDependencies fetches dep from.
RepoClient(dep, ignoreList) ==
    IF ShouldIgnoreRepo(dep.repository, ignoreList)
    THEN [side |-> "t", loc |-> GetRepoLocationId(dep.repository)]
    ELSE [side |-> "r", loc |-> <<>>]

\* Step 2 reading the lock alone.
BuildDepsLockOnly(lk, fromMetadata) ==
    IF lk # NoLock THEN lk.dependencies ELSE <<>>

\* errs = err in place of multierror.Append.
AppendErrOverwrite(es, op, dep) == <<[op |-> op, id |-> DepId(dep)]>>

\* multierror.Append(errs, errors.Annotatef(err, "<op> %q chart", id))
AppendErr(es, op, dep) == Append(es, [op |-> op, id |-> DepId(dep)])

\* deps of Step 2 of BuildDependencies.
BuildDeps(lk, fromMetadata) ==
    IF lk # NoLock THEN lk.dependencies ELSE fromMetadata

\* ------------------------------------------------------------------ Init

SeqsUpTo(S, n) == UNION {[1..k -> S] : k \in 0..n}

DeclLists ==
    {[k \in 1..Len(f) |-> Dep(Names[k], f[k][1], f[k][2])] :
        f \in SeqsUpTo(DeclVersions \X DepRepos, MaxDecl)}

LockLists ==
    {[k \in 1..Len(f) |-> Dep(Names[k], f[k][1], f[k][2])] :
        f \in SeqsUpTo(LockVersions \X DepRepos, MaxLock)}

ChartFile(v, deps) == [apiVersion |-> v, dependencies |-> deps]
LockFile(deps, digest) == [dependencies |-> deps, digest |-> digest]

\* The layouts of a chart directory: Legacy with its lock, Modern with its
\* lock, Modern without a lock, Legacy without a lock, and a Legacy lock whose
\* requirements.yaml is missing.
Layouts ==
    {[f \in Files |->
        CASE f = ChartFilename -> ChartFile(APIV1, <<>>)
          [] f = RequirementsFilename -> [dependencies |-> d]
          [] f = RequirementsLockFilename -> LockFile(l, OldDigest)
          [] OTHER -> NoFile] : d \in DeclLists, l \in LockLists}
    \cup
    {[f \in Files |->
        CASE f = ChartFilename -> ChartFile(APIV2, d)
          [] f = ChartLockFilename -> LockFile(l, OldDigest)
          [] OTHER -> NoFile] : d \in DeclLists, l \in LockLists}
    \cup
    {[f \in Files |->
        CASE f = ChartFilename -> ChartFile(APIV2, d)
          [] OTHER -> NoFile] : d \in DeclLists}
    \cup
    {[f \in Files |->
        CASE f = ChartFilename -> ChartFile(APIV1, <<>>)
          [] f = RequirementsFilename -> [dependencies |-> d]
          [] OTHER -> NoFile] : d \in DeclLists}
    \cup
    {[f \in Files |->
        CASE f = ChartFilename -> ChartFile(APIV1, <<>>)
          [] f = RequirementsLockFilename -> LockFile(l, OldDigest)
          [] OTHER -> NoFile] : l \in LockLists}

Init ==
    /\ disk \in Layouts
    /\ prev = disk
    /\ chartsDir = {StaleArchive}
    /\ targetRepo \in [url : {TargetUrl}, kind : Kinds]
    /\ ignoreTrusted \in SUBSET {SourceUrl, ExtUrl, getDependencyRepoURL(targetRepo)}
    /\ pc = "start"
    /\ lock = NoLock
    /\ apiVersion = ""
    /\ depsFromMetadata = <<>>
    /\ declDeps = <<>>
    /\ i = 1
    /\ errs = <<>>
    /\ fetchLog = <<>>
    /\ log = <<>>
    /\ ret = "running"
    /\ failed = {}
    /\ ioErr = FALSE
    /\ run = 1

\* --------------------------------------------------------------- actions

\* BuildDependencies returns errors.Trace(err) of a file system error.
IOFatal ==
    /\ pc' = "done"
    /\ ret' = "fatal"
    /\ ioErr' = TRUE

\* BuildDependencies without the removal of the charts folder.
PrepareChartsDirKeep ==
    /\ pc = "start"
    /\ UNCHANGED <<disk, chartsDir, targetRepo, ignoreTrusted, lock, apiVersion,
                   depsFromMetadata, declDeps, i, errs, fetchLog, failed, run, prev,
                   ret, ioErr>>
    /\ log' = Append(log, "rmCharts")
    /\ pc' = "resolve"

\* Lines 125-132: os.RemoveAll(charts) and os.Mkdir(charts).  When one of
\* them fails the folder is left with some of its entries, or none.
PrepareChartsDir ==
    /\ pc = "start"
    /\ UNCHANGED <<disk, targetRepo, ignoreTrusted, lock, apiVersion, depsFromMetadata,
                   declDeps, i, errs, fetchLog, failed, run, prev>>
    /\ \/ /\ chartsDir' = {}
          /\ log' = Append(log, "rmCharts")
          /\ pc' = "resolve"
          /\ UNCHANGED <<ret, ioErr>>
       \/ /\ chartsDir' \in SUBSET chartsDir
          /\ log' = IF chartsDir' = chartsDir THEN log ELSE Append(log, "rmCharts")
          /\ IOFatal

\* Lines 133-160: GetChartLock, GetLockAPIVersion and, without a lock file,
\* chartutil.LoadChartfile(Chart.yaml).
ResolveLock ==
    /\ pc = "resolve"
    /\ UNCHANGED <<disk, chartsDir, targetRepo, ignoreTrusted, declDeps, i, errs,
                   fetchLog, failed, run, prev>>
    /\ log' = Append(log, "resolve")
    /\ \/ /\ GetLockAPIVersion(disk) # ""
          /\ lock' = GetChartLock(disk)
          /\ apiVersion' = GetLockAPIVersion(disk)
          /\ depsFromMetadata' = <<>>
          /\ pc' = "rewrite"
          /\ UNCHANGED <<ret, ioErr>>
       \/ /\ GetLockAPIVersion(disk) = ""
          /\ lock' = NoLock
          /\ apiVersion' = MetadataAPIVersion(disk[ChartFilename])
          /\ UNCHANGED ioErr
          /\ IF apiVersion' = APIV2
             THEN /\ depsFromMetadata' = disk[ChartFilename].dependencies
                  /\ pc' = "rewrite"
                  /\ ret' = ret
             ELSE /\ depsFromMetadata' = <<>>
                  /\ pc' = "done"
                  /\ ret' = "nil"
       \/ /\ UNCHANGED <<lock, apiVersion, depsFromMetadata>>
          /\ IOFatal

\* The file the declarations of the active generation live in.
DeclFilename(v) == IF v = APIV1 THEN RequirementsFilename ELSE ChartFilename

\* The rewritten declaration list of the active generation.
DeclRewrite(v, deps, src, tgt, ignoreList) ==
    IF v = APIV1 THEN RequirementsRewrite(deps, src, tgt, ignoreList)
    ELSE MetadataRewrite(deps, src, tgt, ignoreList)

\* Lines 162-173 with 225-258 and 269-304: read the declaration file of the
\* generation, rewrite every declaration, write the file back; updateLockFile
\* follows for a Legacy chart and for a Modern chart with a lock.
UpdateDeclarations ==
    /\ pc = "rewrite"
    /\ UNCHANGED <<chartsDir, targetRepo, ignoreTrusted, lock, apiVersion,
                   depsFromMetadata, i, errs, fetchLog, failed, run, prev>>
    /\ \/ /\ disk[DeclFilename(apiVersion)] # NoFile
          /\ LET f == DeclFilename(apiVersion)
                 deps == DeclRewrite(apiVersion, disk[f].dependencies, sourceRepo,
                                     targetRepo, ignoreTrusted)
             IN  /\ disk' = [disk EXCEPT ![f].dependencies = deps]
                 /\ declDeps' = deps
                 /\ log' = Append(log, "writeDecl")
          /\ pc' = IF apiVersion = APIV1 \/ lock # NoLock THEN "lock" ELSE "build"
          /\ UNCHANGED <<ret, ioErr>>
       \/ /\ disk[DeclFilename(apiVersion)] = NoFile
          /\ UNCHANGED <<disk, declDeps, log, ioErr>>
          /\ pc' = "done"
          /\ ret' = "fatal"
       \/ /\ disk[DeclFilename(apiVersion)] # NoFile
          /\ UNCHANGED <<disk, declDeps, log>>
          /\ IOFatal

\* updateLockFile taking the digest before it rewrites the lock entries.
RecomputeDigestBeforeRewrite ==
    /\ pc = "lock"
    /\ UNCHANGED <<disk, chartsDir, targetRepo, ignoreTrusted, apiVersion,
                   depsFromMetadata, declDeps, i, errs, fetchLog, failed, run, prev,
                   ret, ioErr>>
    /\ LET entries == LockRewrite(lock.dependencies, sourceRepo, targetRepo,
                                  ignoreTrusted)
       IN  lock' = [dependencies |-> entries,
                    digest |-> hashDeps(declDeps, lock.dependencies)]
    /\ log' = Append(log, "digest")
    /\ pc' = "writeLock"

\* Lines 313-336: rewrite every lock entry in place, then hashDeps and
\* lock.Digest = newDigest.
RecomputeDigest ==
    /\ pc = "lock"
    /\ UNCHANGED <<disk, chartsDir, targetRepo, ignoreTrusted, apiVersion,
                   depsFromMetadata, declDeps, i, errs, fetchLog, failed, run, prev,
                   ret, ioErr>>
    /\ LET entries == LockRewrite(lock.dependencies, sourceRepo, targetRepo,
                                  ignoreTrusted)
       IN  lock' = [dependencies |-> entries, digest |-> hashDeps(declDeps, entries)]
    /\ log' = Append(log, "digest")
    /\ pc' = "writeLock"

\* Lines 338-347: writeChartFile(lock file).
WriteLockFile ==
    /\ pc = "writeLock"
    /\ UNCHANGED <<chartsDir, targetRepo, ignoreTrusted, lock, apiVersion,
                   depsFromMetadata, declDeps, i, errs, fetchLog, failed, run, prev>>
    /\ \/ /\ disk' = [disk EXCEPT ![lockFilePath(apiVersion)] = lock]
          /\ log' = Append(log, "writeLock")
          /\ pc' = "build"
          /\ UNCHANGED <<ret, ioErr>>
       \/ /\ UNCHANGED <<disk, log>>
          /\ IOFatal

\* Lines 185-217: one iteration of the loop over deps.  Fetch returns an
\* archive or an error, CopyFile succeeds or returns an error; after an error
\* the loop continues with the next dependency.
FetchDependency ==
    /\ pc = "build"
    /\ i <= Len(BuildDeps(lock, depsFromMetadata))
    /\ UNCHANGED <<disk, targetRepo, ignoreTrusted, lock, apiVersion, depsFromMetadata,
                   declDeps, pc, ret, ioErr, run, prev>>
    /\ LET dep == BuildDeps(lock, depsFromMetadata)[i]
       IN  /\ fetchLog' = Append(fetchLog, [client |-> RepoClient(dep, ignoreTrusted),
                                            name |-> dep.name, version |-> dep.version])
           /\ log' = Append(log, "fetch")
           /\ i' = i + 1
           /\ \/ /\ chartsDir' = chartsDir \cup {DepFile(dep)}
                 /\ UNCHANGED <<errs, failed>>
              \/ /\ chartsDir' = chartsDir
                 /\ errs' = AppendErr(errs, "fetching", dep)
                 /\ failed' = failed \cup {i}
              \/ /\ chartsDir' = chartsDir
                 /\ errs' = AppendErr(errs, "copying", dep)
                 /\ failed' = failed \cup {i}

\* Line 220: return errs.
Return ==
    /\ pc = "build"
    /\ i > Len(BuildDeps(lock, depsFromMetadata))
    /\ UNCHANGED <<disk, chartsDir, targetRepo, ignoreTrusted, lock, apiVersion,
                   depsFromMetadata, declDeps, i, errs, fetchLog, log, failed, ioErr,
                   run, prev>>
    /\ pc' = "done"
    /\ ret' = IF errs = <<>> THEN "nil" ELSE "errs"

Next ==
    \/ PrepareChartsDir
    \/ ResolveLock
    \/ UpdateDeclarations
    \/ RecomputeDigest
    \/ WriteLockFile
    \/ FetchDependency
    \/ Return

Spec == Init /\ [][Next]_vars

\* A further call of BuildDependencies on the chart directory the previous
\* call has rewritten: the locals are fresh, the directory is kept.
RunAgain ==
    /\ pc = "build"
    /\ run < MaxRuns
    /\ UNCHANGED <<disk, chartsDir, targetRepo, ignoreTrusted, ioErr>>
    /\ run' = run + 1
    /\ prev' = disk
    /\ pc' = "start"
    /\ lock' = NoLock
    /\ apiVersion' = ""
    /\ depsFromMetadata' = <<>>
    /\ declDeps' = <<>>
    /\ i' = 1
    /\ errs' = <<>>
    /\ fetchLog' = <<>>
    /\ log' = <<>>
    /\ failed' = {}
    /\ ret' = "running"

\* The rewriting stages of BuildDependencies, run up to MaxRuns times in
\* sequence on the same chart directory.
NextRewrite ==
    \/ PrepareChartsDir
    \/ ResolveLock
    \/ UpdateDeclarations
    \/ RecomputeDigest
    \/ WriteLockFile
    \/ RunAgain

SpecRewrite == Init /\ [][NextRewrite]_vars

\* ------------------------------------------------------------ properties

\* The generation BuildDependencies works in on chart directory d.
ActiveAPIVersion(d) ==
    IF GetLockAPIVersion(d) # "" THEN GetLockAPIVersion(d)
    ELSE MetadataAPIVersion(d[ChartFilename])

HasLock(d) == GetLockAPIVersion(d) # ""

\* The declaration list and the lock entry list persisted in d.
DeclOf(d) == d[DeclFilename(ActiveAPIVersion(d))].dependencies
LockOf(d) == GetChartLock(d).dependencies

\* The target's canonical dependency URL.
TargetDepUrl == getDependencyRepoURL(targetRepo)

\* The rewriting stages of the current invocation have completed.
Rewritten ==
    \/ pc = "build"
    \/ pc = "done" /\ ret \in {"nil", "errs"} /\ apiVersion # ""

RewrittenWithLock == Rewritten /\ HasLock(prev)

\* C1 as stated: in a package with a lock, every dependency whose declared
\* repository is the source URL ends with the target's canonical dependency
\* URL in its persisted declaration and in the persisted lock entry of the
\* same name.
C1_DeclaredSourceRewrittenInBoth ==
    RewrittenWithLock =>
        \A k \in DOMAIN DeclOf(prev) :
            DeclOf(prev)[k].repository = sourceRepo.url =>
                /\ DeclOf(disk)[k].repository = TargetDepUrl
                /\ \A j \in DOMAIN LockOf(disk) :
                       LockOf(disk)[j].name = DeclOf(prev)[k].name =>
                           LockOf(disk)[j].repository = TargetDepUrl

\* C1 amended: every declaration whose repository is the source URL, and
\* every lock entry whose own repository is the source URL, is persisted with
\* the target's canonical dependency URL, whatever the trust lists contain.
C1_SourceEntriesRewritten ==
    RewrittenWithLock =>
        /\ \A k \in DOMAIN DeclOf(prev) :
               DeclOf(prev)[k].repository = sourceRepo.url =>
                   DeclOf(disk)[k].repository = TargetDepUrl
        /\ \A j \in DOMAIN LockOf(prev) :
               LockOf(prev)[j].repository = sourceRepo.url =>
                   LockOf(disk)[j].repository = TargetDepUrl

\* A rewritten package with a declaration and a lock entry at the source URL,
\* the source URL being classified as ignored.
C1_Witness ==
    /\ RewrittenWithLock
    /\ sourceRepo.url \in ignoreTrusted
    /\ \E k \in DOMAIN DeclOf(prev) : DeclOf(prev)[k].repository = sourceRepo.url
    /\ \E j \in DOMAIN LockOf(prev) : LockOf(prev)[j].repository = sourceRepo.url

\* C2 as stated: after the rewrite of a package with a lock, a declaration
\* points at the target if and only if the lock entry of the same name does.
C2_DeclAndLockAgree ==
    RewrittenWithLock =>
        \A k \in DOMAIN DeclOf(disk), j \in DOMAIN LockOf(disk) :
            DeclOf(disk)[k].name = LockOf(disk)[j].name =>
                (DeclOf(disk)[k].repository = TargetDepUrl
                    <=> LockOf(disk)[j].repository = TargetDepUrl)

\* C2 amended: a declaration and the lock entry of the same name that carried
\* the same repository before the rewrite carry the same repository after it.
C2_SameOriginSameResult ==
    RewrittenWithLock =>
        \A k \in DOMAIN DeclOf(disk), j \in DOMAIN LockOf(disk) :
            /\ DeclOf(prev)[k].name = LockOf(prev)[j].name
            /\ DeclOf(prev)[k].repository = LockOf(prev)[j].repository
            => DeclOf(disk)[k].repository = LockOf(disk)[j].repository

\* A rewritten package in which a declaration and its lock entry shared a
\* repository and were both rewritten away from it.
C2_Witness ==
    /\ RewrittenWithLock
    /\ \E k \in DOMAIN DeclOf(disk), j \in DOMAIN LockOf(disk) :
           /\ DeclOf(prev)[k].name = LockOf(prev)[j].name
           /\ DeclOf(prev)[k].repository = LockOf(prev)[j].repository
           /\ DeclOf(disk)[k].repository # DeclOf(prev)[k].repository
           /\ LockOf(disk)[j].repository = TargetDepUrl

\* The dependency list Step 2 iterates, with the repositories the chart
\* directory held before the rewrite.
OriginalBuildDeps ==
    IF HasLock(prev) THEN LockOf(prev) ELSE prev[ChartFilename].dependencies

\* C3: every Fetch of the materializer loop goes to the client chosen from
\* the trust classification of the dependency's original repository URL:
\* t[locationId(original URL)] when it is ignored, r otherwise.
C3_ClientFromOriginalRepository ==
    \A k \in DOMAIN fetchLog :
        fetchLog[k].client = RepoClient(OriginalBuildDeps[k], ignoreTrusted)

\* The dependency list Step 2 of the current invocation iterates.
CurrentBuildDeps == BuildDeps(lock, depsFromMetadata)

\* BuildDependencies went through the materializer loop and returned.
Materialized == pc = "done" /\ ret \in {"nil", "errs"} /\ apiVersion # ""

\* C4: the materializer calls Fetch once per dependency of the authoritative
\* list, in order; charts/ holds the archive of exactly the dependencies
\* whose fetch and copy succeeded; the aggregated error holds exactly the
\* identity keys of the failed ones; no error is returned if and only if
\* none failed.
C4_PartialFailureAggregated ==
    Materialized =>
        /\ Len(fetchLog) = Len(CurrentBuildDeps)
        /\ \A k \in DOMAIN fetchLog :
               /\ fetchLog[k].name = CurrentBuildDeps[k].name
               /\ fetchLog[k].version = CurrentBuildDeps[k].version
        /\ chartsDir = {DepFile(CurrentBuildDeps[k]) : k \in DOMAIN CurrentBuildDeps \ failed}
        /\ Len(errs) = Cardinality(failed)
        /\ {errs[e].id : e \in DOMAIN errs} = {DepId(CurrentBuildDeps[k]) : k \in failed}
        /\ (ret = "nil" <=> failed = {})

\* A finished call on a list of at least two entries of which the last was
\* materialized after an earlier one failed, and one in which two failed.
C4_Witness ==
    /\ Materialized
    /\ Len(CurrentBuildDeps) >= 2
    /\ 1 \in failed
    /\ Len(CurrentBuildDeps) \notin failed
    /\ DepFile(CurrentBuildDeps[Len(CurrentBuildDeps)]) \in chartsDir
    /\ ret = "errs"

InLog(e) == \E a \in DOMAIN log : log[a] = e

\* C5 as stated: the charts folder is deleted and recreated only once schema
\* resolution, rewriting and digest recomputation have completed, and a fatal
\* error leaves the folder as it was.
C5_FolderRebuiltAfterRewrite ==
    /\ chartsDir # {StaleArchive} => Rewritten
    /\ pc = "done" /\ ret = "fatal" => chartsDir = {StaleArchive}

\* The position of a side effect in one invocation.
StageRank(e) ==
    CASE e = "rmCharts" -> 0
      [] e = "resolve" -> 1
      [] e = "writeDecl" -> 2
      [] e = "digest" -> 3
      [] e = "writeLock" -> 4
      [] e = "fetch" -> 5

\* C5 amended: the folder is deleted and recreated first; then come schema and
\* lock resolution, the rewrite of the declaration file, the digest, the
\* write of the lock file and the fetches, in this order; from schema
\* resolution on the folder no longer holds what it held before the call, and
\* a fatal error in one of these stages leaves it empty.
C5_StagesInOrder ==
    /\ \A a, b \in DOMAIN log :
           a < b => \/ StageRank(log[a]) < StageRank(log[b])
                    \/ log[a] = "fetch" /\ log[b] = "fetch"
    /\ log # <<>> => log[1] = "rmCharts"
    /\ InLog("resolve") => log[1] = "rmCharts" /\ StaleArchive \notin chartsDir
    /\ InLog("resolve") /\ pc = "done" /\ ret = "fatal" => chartsDir = {}

\* A call that failed fatally after the declaration file was rewritten: the
\* folder is empty.
C5_Witness ==
    /\ pc = "done"
    /\ ret = "fatal"
    /\ InLog("writeDecl")
    /\ chartsDir = {}

\* The chart directory at the start is Modern without a lock file.
ModernNoLock(d) == ~HasLock(d) /\ d[ChartFilename].apiVersion = APIV2

\* C6: for a Modern chart without a lock file BuildDependencies never creates
\* a lock file and never computes a digest; when no file operation fails it
\* rewrites Chart.yaml, returns no fatal error, rebuilds charts/ and calls
\* Fetch once per inline declaration.
C6_ModernWithoutLock ==
    ModernNoLock(prev) =>
        /\ disk[RequirementsLockFilename] = NoFile
        /\ disk[ChartLockFilename] = NoFile
        /\ ~InLog("digest") /\ ~InLog("writeLock")
        /\ pc = "done" /\ ~ioErr =>
               /\ ret \in {"nil", "errs"}
               /\ InLog("writeDecl")
               /\ disk[ChartFilename].dependencies =
                      MetadataRewrite(prev[ChartFilename].dependencies, sourceRepo,
                                      targetRepo, ignoreTrusted)
               /\ StaleArchive \notin chartsDir
               /\ Len(fetchLog) = Len(prev[ChartFilename].dependencies)
               /\ \A k \in DOMAIN fetchLog :
                      /\ fetchLog[k].name = prev[ChartFilename].dependencies[k].name
                      /\ fetchLog[k].version = prev[ChartFilename].dependencies[k].version

\* A finished call on a Modern chart without a lock and with two inline
\* declarations, one of them rewritten.
C6_Witness ==
    /\ ModernNoLock(prev)
    /\ pc = "done"
    /\ ret = "nil"
    /\ Len(fetchLog) = 2
    /\ disk[ChartFilename] # prev[ChartFilename]

\* The position of side effect e in the log of this invocation (0: none).
LogIndex(e) == IF InLog(e) THEN CHOOSE a \in DOMAIN log : log[a] = e ELSE 0

\* Other (declarations, lock entries) pairs: the ones before the rewrite and
\* every other way of cutting the persisted entries into two lists.
OtherPairs(decl, entries) ==
    LET all == decl \o entries
    IN  {<<SubSeq(all, 1, k), SubSeq(all, k + 1, Len(all))>> : k \in 0..Len(all)}
        \cup {<<DeclOf(prev), LockOf(prev)>>}

\* C7: once the lock file is written its digest is hashDeps of the persisted
\* declaration list and the persisted lock entry list, the digest was set
\* before the write, another pair has the same digest only if it is the same
\* pair, and the digests two successive runs persist are equal exactly when
\* the pairs they persist are.
C7_DigestOfPersistedPair ==
    HasLock(prev) /\ InLog("writeLock") =>
        /\ GetChartLock(disk).digest = hashDeps(DeclOf(disk), LockOf(disk))
        /\ 0 < LogIndex("digest") /\ LogIndex("digest") < LogIndex("writeLock")
        /\ LogIndex("writeDecl") < LogIndex("digest")
        /\ \A p \in OtherPairs(DeclOf(disk), LockOf(disk)) :
               hashDeps(p[1], p[2]) = GetChartLock(disk).digest
                   <=> p = <<DeclOf(disk), LockOf(disk)>>
        /\ run > 1 =>
               (GetChartLock(prev).digest = GetChartLock(disk).digest
                   <=> <<DeclOf(prev), LockOf(prev)>> = <<DeclOf(disk), LockOf(disk)>>)

\* A written lock file whose entries and declarations were both changed by
\* the rewrite.
C7_Witness ==
    /\ HasLock(prev)
    /\ InLog("writeLock")
    /\ DeclOf(disk) # DeclOf(prev)
    /\ LockOf(disk) # LockOf(prev)
    /\ GetChartLock(disk).digest # OldDigest

\* C8: a second rewrite of the chart directory the first one produced leaves
\* every declaration, every lock entry and the digest as the first one
\* persisted them.
C8_RewriteIdempotent ==
    run > 1 /\ Rewritten =>
        /\ DeclOf(disk) = DeclOf(prev)
        /\ HasLock(prev) => /\ LockOf(disk) = LockOf(prev)
                            /\ GetChartLock(disk).digest = GetChartLock(prev).digest

\* A second rewrite finished on a chart with a lock whose first rewrite moved
\* one entry to the target and kept another.
C8_Witness ==
    /\ run = 2
    /\ pc = "build"
    /\ HasLock(prev)
    /\ \E k \in DOMAIN LockOf(disk) : LockOf(disk)[k].repository = TargetDepUrl
    /\ \E k \in DOMAIN LockOf(disk) : LockOf(disk)[k].repository = ExtUrl
    /\ \E k \in DOMAIN DeclOf(disk) : DeclOf(disk)[k].repository = TargetDepUrl

NameVersions(deps) == {<<deps[k].name, deps[k].version>> : k \in DOMAIN deps}

\* C9 as stated: after the rewrite of a package with a lock the (name,
\* version) pairs of the lock entries are those of the declarations.
C9_SameNameVersionSets ==
    RewrittenWithLock => NameVersions(LockOf(disk)) = NameVersions(DeclOf(disk))

SameButRepository(before, after) ==
    /\ Len(after) = Len(before)
    /\ \A k \in DOMAIN before :
           /\ after[k].name = before[k].name
           /\ after[k].version = before[k].version

\* C9 amended: the rewrite keeps the length, order, names and versions of the
\* declaration list and of the lock entry list and changes repository URLs
\* only; so the two (name, version) sets are equal after it exactly when they
\* were equal before it.
C9_OnlyRepositoryChanges ==
    RewrittenWithLock =>
        /\ SameButRepository(DeclOf(prev), DeclOf(disk))
        /\ SameButRepository(LockOf(prev), LockOf(disk))
        /\ (NameVersions(LockOf(disk)) = NameVersions(DeclOf(disk))
               <=> NameVersions(LockOf(prev)) = NameVersions(DeclOf(prev)))

\* A rewritten package whose declaration gives a version range, its lock
\* entry the resolved version, both moved to the target.
C9_Witness ==
    /\ RewrittenWithLock
    /\ \E k \in DOMAIN DeclOf(disk) \cap DOMAIN LockOf(disk) :
           /\ DeclOf(disk)[k].version = "1.x"
           /\ LockOf(disk)[k].version = "1.2.3"
           /\ DeclOf(disk)[k].repository # DeclOf(prev)[k].repository
           /\ LockOf(disk)[k].repository # LockOf(prev)[k].repository

\* The chart directory has no lock file and its Chart.yaml is not Modern.
LegacyNoLock(d) == ~HasLock(d) /\ d[ChartFilename].apiVersion # APIV2

\* C10: without a lock file and with a Chart.yaml that is not v2,
\* BuildDependencies writes no file and fetches nothing, and returns nil
\* unless a file operation failed.
C10_NoLockNotModern ==
    LegacyNoLock(prev) =>
        /\ disk = prev
        /\ fetchLog = <<>>
        /\ ~InLog("writeDecl") /\ ~InLog("digest") /\ ~InLog("writeLock")
        /\ pc = "done" /\ ~ioErr => ret = "nil"

\* A finished call on a chart without a lock, not Modern, whose
\* requirements.yaml declares dependencies at the source URL.
C10_Witness ==
    /\ LegacyNoLock(prev)
    /\ pc = "done"
    /\ ret = "nil"
    /\ prev[RequirementsFilename] # NoFile
    /\ \E k \in DOMAIN prev[RequirementsFilename].dependencies :
           prev[RequirementsFilename].dependencies[k].repository = sourceRepo.url

====
